---- MODULE Spec2Model ----
(***************************************************************************)
(* colmac: macros over std::collections (src/src/lib.rs).                  *)
(*                                                                         *)
(* count_args!, hashmap!, hashset!, sort!, sorted!, sorted_f64! are        *)
(* modelled by what their expansions do.  The slice sort the expansions    *)
(* call (slice::sort_unstable / sort_unstable_by) leaves the order of      *)
(* equal elements unspecified; it is modelled by the two routines the      *)
(* standard library runs on short slices, one per library build           *)
(* (insertion sort by default, heapsort when built for size), and the     *)
(* build is a nondeterministic choice of the initial state.               *)
(***************************************************************************)
EXTENDS Integers, Sequences, FiniteSets, TLC

\* ---------------------------------------------------------------- bounds
MaxLen == 4
MaxVal == 2
MaxArgs == 3
MaxKey == 3
MaxLitVal == 2
CapSlack == 1

VARIABLES
    build,       \* which short-slice routine the library build sorts with
    etype,       \* element type of the caller's collection: "i32" or "f64"
    kind,        \* "vec", "array" or "set" (a set is held in iteration order)
    collection,  \* the caller's collection, the $collection of sort!/sorted!
    op,          \* the macro invoked last
    cmpUsed,     \* the comparator of the last sort!/sorted! call
    before,      \* the collection as it was when the last call began
    outcome,     \* "none", "returned" or "panicked"
    returned,    \* the value the last sorted!/sorted_f64! call returned
    macro,       \* the literal macro of this call site
    args,        \* its argument list: elements, or <<key, value>> pairs
    pc,          \* position inside the expansion of the literal macro
    size,        \* let size = count_args!(...)
    capacity,    \* capacity of the container under construction
    map,         \* the HashMap under construction, a function key -> value
    set,         \* the HashSet under construction
    idx,         \* the next argument to insert
    evals,       \* the argument expressions evaluated so far, in order
    reallocs,    \* reallocations the insertions have triggered
    count        \* the value of a count_args! call, and its expansion depth

sortVars == <<build, etype, kind, collection, op, cmpUsed, before, outcome, returned>>
litVars == <<macro, args, pc, size, capacity, map, set, idx, evals, reallocs, count>>
vars == <<build, etype, kind, collection, op, cmpUsed, before, outcome, returned,
          macro, args, pc, size, capacity, map, set, idx, evals, reallocs, count>>

\* ---------------------------------------------------------------- values
Values == 0..MaxVal
\* f64::NAN, the one value partial_cmp cannot order
NaN == MaxVal + 1
F64Values == Values \cup {NaN}

SeqsUpTo(S, n) == UNION {[1..k -> S] : k \in 0..n}

Swap(v, i, j) == [v EXCEPT ![i] = v[j], ![j] = v[i]]

Min(a, b) == IF a < b THEN a ELSE b

\* ------------------------------------------------------------ comparators
\* Ord::cmp on integers
Cmp(a, b) == IF a < b THEN "Less" ELSE IF a > b THEN "Greater" ELSE "Equal"

\* the reversing closure of the examples and tests
ReverseCmp(a, b) ==
    CASE Cmp(a, b) = "Less" -> "Greater"
      [] Cmp(a, b) = "Greater" -> "Less"
      [] Cmp(a, b) = "Equal" -> "Equal"

\* a caller's closure that orders by a key shared by distinct elements
Key(a) == a \div 2
ByKeyCmp(a, b) == Cmp(Key(a), Key(b))

\* f64::partial_cmp: None when either side is NaN
PartialCmp(a, b) == IF a = NaN \/ b = NaN THEN "None" ELSE Cmp(a, b)

\* a closure that rates an incomparable pair Equal instead of unwrapping
PartialCmpUnwrapOrEqual(a, b) ==
    IF PartialCmp(a, b) = "None" THEN "Equal" ELSE PartialCmp(a, b)

\* |a, b| a.partial_cmp(b).unwrap(): unwrap panics on None
PartialCmpUnwrap(a, b) ==
    IF PartialCmp(a, b) = "None" THEN "Panic" ELSE PartialCmp(a, b)

Compare(cmp, a, b) ==
    CASE cmp = "natural" -> Cmp(a, b)
      [] cmp = "reverse" -> ReverseCmp(a, b)
      [] cmp = "by_key" -> ByKeyCmp(a, b)
      [] cmp = "partial_unwrap" -> PartialCmpUnwrap(a, b)

\* the comparators a collection of the given element type can be sorted with
Comparators(t) ==
    IF t = "i32" THEN {"natural", "reverse", "by_key"} ELSE {"partial_unwrap"}

\* an is_less that tests for Greater
IsLessFlipped(cmp, a, b) ==
    LET o == Compare(cmp, a, b)
    IN  IF o = "Panic" THEN "Panic" ELSE IF o = "Greater" THEN "T" ELSE "F"

\* is_less of the slice sort: compare(a, b) == Less; a panic propagates
IsLess(cmp, a, b) ==
    LET o == Compare(cmp, a, b)
    IN  IF o = "Panic" THEN "Panic" ELSE IF o = "Less" THEN "T" ELSE "F"

\* ------------------------------------------------------------- slice sort
\* insert_tail: v[j] is the element being inserted into the sorted v[1..j-1].
\* The element sits in the hole while it travels, which is where the drop
\* guard puts it back when is_less panics.
RECURSIVE InsertTail(_, _, _)
InsertTail(v, j, cmp) ==
    IF j = 1 THEN [v |-> v, ok |-> TRUE]
    ELSE LET l == IsLess(cmp, v[j], v[j - 1])
         IN  IF l = "Panic" THEN [v |-> v, ok |-> FALSE]
             ELSE IF l = "T" THEN InsertTail(Swap(v, j - 1, j), j - 1, cmp)
             ELSE [v |-> v, ok |-> TRUE]

\* insertion_sort_shift_left(v, offset, is_less), positions counted from 1
RECURSIVE InsertionSortShiftLeft(_, _, _)
InsertionSortShiftLeft(v, i, cmp) ==
    IF i > Len(v) THEN [v |-> v, ok |-> TRUE]
    ELSE LET r == InsertTail(v, i, cmp)
         IN  IF r.ok THEN InsertionSortShiftLeft(r.v, i + 1, cmp) ELSE r

\* sift_down on the heap v[1..len], children of node n at 2n and 2n+1
RECURSIVE SiftDown(_, _, _, _)
SiftDown(v, len, node, cmp) ==
    LET child == 2 * node
    IN  IF child > len THEN [v |-> v, ok |-> TRUE]
        ELSE LET pick == IF child + 1 <= len
                         THEN IsLess(cmp, v[child], v[child + 1])
                         ELSE "F"
             IN  IF pick = "Panic" THEN [v |-> v, ok |-> FALSE]
                 ELSE LET c == IF pick = "T" THEN child + 1 ELSE child
                          l == IsLess(cmp, v[node], v[c])
                      IN  IF l = "Panic" THEN [v |-> v, ok |-> FALSE]
                          ELSE IF l = "F" THEN [v |-> v, ok |-> TRUE]
                          ELSE SiftDown(Swap(v, node, c), len, c, cmp)

\* heapsort: for i in (0..len + len / 2).rev(), i as in the library (from 0)
RECURSIVE HeapsortLoop(_, _, _)
HeapsortLoop(v, i, cmp) ==
    IF i < 0 THEN [v |-> v, ok |-> TRUE]
    ELSE LET len == Len(v)
             w == IF i >= len THEN v ELSE Swap(v, 1, i + 1)
             node == IF i >= len THEN i - len + 1 ELSE 1
             r == SiftDown(w, Min(i, len), node, cmp)
         IN  IF r.ok THEN HeapsortLoop(r.v, i - 1, cmp) ELSE r

Heapsort(v, cmp) == HeapsortLoop(v, Len(v) + (Len(v) \div 2) - 1, cmp)

\* slice::sort_unstable / sort_unstable_by on the build b: slices shorter than
\* two are returned without a comparison
SortUnstableBy(v, cmp, b) ==
    IF Len(v) < 2 THEN [v |-> v, ok |-> TRUE]
    ELSE IF b = "heapsort" THEN Heapsort(v, cmp)
    ELSE InsertionSortShiftLeft(v, 2, cmp)

\* ----------------------------------------------------------------- macros
\* a sort! that slices $collection[1..]: the first element is left where it is
SortMacroSkippingFirst(coll, cmp, b) ==
    IF Len(coll) < 2 THEN [v |-> coll, ok |-> TRUE]
    ELSE LET r == SortUnstableBy(Tail(coll), cmp, b)
         IN  [v |-> <<Head(coll)>> \o r.v, ok |-> r.ok]

\* sort!: (&mut $collection[..]).sort_unstable() / .sort_unstable_by($compare_fn)
SortMacro(coll, cmp, b) == SortUnstableBy(coll, cmp, b)

\* a sorted! that sorts the source itself instead of a clone of it
SortedMacroInPlace(coll, cmp, b) ==
    LET r == SortMacro(coll, cmp, b)
    IN  [collection |-> r.v, ok |-> r.ok, value |-> IF r.ok THEN r.v ELSE <<>>]

\* a sorted! that hands back the clones as the panic left them
SortedMacroPartial(coll, cmp, b) ==
    LET r == SortMacro(coll, cmp, b)
    IN  [collection |-> coll, ok |-> r.ok, value |-> r.v]

\* sorted!: clone every element, sort! the clones, return them; the clones are
\* dropped when the sort panics
SortedMacro(coll, cmp, b) ==
    LET clones == coll
        r == SortMacro(clones, cmp, b)
    IN  [collection |-> coll, ok |-> r.ok, value |-> IF r.ok THEN r.v ELSE <<>>]

\* sorted_f64!: sorted! with |a, b| a.partial_cmp(b).unwrap()
SortedF64Macro(coll, b) == SortedMacro(coll, "partial_unwrap", b)

\* ------------------------------------------------------------ sort actions
IsDistinct(v) == \A i, j \in 1..Len(v) : i # j => v[i] # v[j]

InitLitIdle ==
    /\ macro = "none"
    /\ args = <<>>
    /\ pc = "idle"
    /\ size = 0
    /\ capacity = 0
    /\ map = <<>>
    /\ set = {}
    /\ idx = 0
    /\ evals = <<>>
    /\ reallocs = 0
    /\ count = [value |-> 0, depth |-> 0]

InitSort ==
    /\ build \in {"insertion", "heapsort"}
    /\ etype \in {"i32", "f64"}
    /\ kind \in {"vec", "array", "set"}
    /\ etype = "f64" => kind # "set"
    /\ collection \in SeqsUpTo(IF etype = "i32" THEN Values ELSE F64Values, MaxLen)
    /\ kind = "set" => IsDistinct(collection)
    /\ op = "none"
    /\ cmpUsed = "none"
    /\ before = <<>>
    /\ outcome = "none"
    /\ returned = <<>>
    /\ InitLitIdle

\* sort!(collection) and sort!(collection, compare_fn): needs IndexMut
Sort(cmp) ==
    /\ kind \in {"vec", "array"}
    /\ cmp \in Comparators(etype)
    /\ LET r == SortMacro(collection, cmp, build)
       IN  /\ collection' = r.v
           /\ outcome' = IF r.ok THEN "returned" ELSE "panicked"
    /\ op' = "sort"
    /\ cmpUsed' = cmp
    /\ before' = collection
    /\ returned' = <<>>
    /\ UNCHANGED <<build, etype, kind>>
    /\ UNCHANGED litVars

\* sorted!(collection) and sorted!(collection, compare_fn)
Sorted(cmp) ==
    /\ cmp \in Comparators(etype)
    /\ LET s == SortedMacro(collection, cmp, build)
       IN  /\ collection' = s.collection
           /\ returned' = s.value
           /\ outcome' = IF s.ok THEN "returned" ELSE "panicked"
    /\ op' = "sorted"
    /\ cmpUsed' = cmp
    /\ before' = collection
    /\ UNCHANGED <<build, etype, kind>>
    /\ UNCHANGED litVars

\* sorted_f64!(collection)
SortedF64 ==
    /\ etype = "f64"
    /\ LET s == SortedF64Macro(collection, build)
       IN  /\ collection' = s.collection
           /\ returned' = s.value
           /\ outcome' = IF s.ok THEN "returned" ELSE "panicked"
    /\ op' = "sorted_f64"
    /\ cmpUsed' = "partial_unwrap"
    /\ before' = collection
    /\ UNCHANGED <<build, etype, kind>>
    /\ UNCHANGED litVars

NextSort ==
    \/ \E cmp \in {"natural", "reverse", "by_key", "partial_unwrap"} : Sort(cmp)
    \/ \E cmp \in {"natural", "reverse", "by_key", "partial_unwrap"} : Sorted(cmp)
    \/ SortedF64

SortSpec == InitSort /\ [][NextSort]_vars

\* ------------------------------------------------------------- count_args!
\* The macros see their arguments as expressions; an expression is named by
\* its role and position, <<"key", i>>, <<"value", i>> or <<"elem", i>>.

\* a count_args! whose recursive rule forgets the first argument
RECURSIVE CountArgsDroppingOne(_)
CountArgsDroppingOne(exprs) ==
    IF exprs = <<>> THEN 0
    ELSE IF Len(exprs) = 1 THEN 1
    ELSE CountArgsDroppingOne(Tail(exprs))

\* count_args!: () => 0usize; ($arg) => 1usize;
\* ($arg, $($rest),*) => 1usize + count_args!($($rest),*)
RECURSIVE CountArgs(_)
CountArgs(exprs) ==
    IF exprs = <<>> THEN 0
    ELSE IF Len(exprs) = 1 THEN 1
    ELSE 1 + CountArgs(Tail(exprs))

\* the number of count_args! invocations the expansion goes through
RECURSIVE CountArgsDepth(_)
CountArgsDepth(exprs) ==
    IF exprs = <<>> THEN 1
    ELSE IF Len(exprs) = 1 THEN 1
    ELSE 1 + CountArgsDepth(Tail(exprs))

\* a count_args! whose rules expand to { $arg; 1usize }
CountArgsEvaluatingArgs(exprs) == exprs

\* the argument expressions the expansion of count_args! evaluates: every rule
\* drops $arg, and $rest goes only to the recursive invocation
RECURSIVE CountArgsEvaluated(_)
CountArgsEvaluated(exprs) ==
    IF exprs = <<>> THEN <<>>
    ELSE IF Len(exprs) = 1 THEN <<>>
    ELSE <<>> \o CountArgsEvaluated(Tail(exprs))

\* ------------------------------------------------------ hashmap!, hashset!
Keys == 1..MaxKey
LitVals == 1..MaxLitVal

KeyExprs(a) == [i \in 1..Len(a) |-> <<"key", i>>]
ElemExprs(a) == [i \in 1..Len(a) |-> <<"elem", i>>]

\* HashMap::new(): nothing is reserved
WithCapacityNothing(n) == {0}

\* HashMap::with_capacity(n), HashSet::with_capacity(n): the capacities the
\* library may grant, each enough for at least n entries
WithCapacity(n) == n..(n + CapSlack)

\* HashMap::insert: a present key keeps its place and takes the new value
HashMapInsert(m, k, v) ==
    [x \in (DOMAIN m) \cup {k} |-> IF x = k THEN v ELSE m[x]]

\* a map.insert($value, $key)
InsertPairSwapped(m, pair) == HashMapInsert(m, pair[2], pair[1])

\* map.insert($key, $value)
InsertPair(m, pair) == HashMapInsert(m, pair[1], pair[2])

\* a set.insert that takes an element only into an empty set
InsertElemOnce(s, e) == IF s = {} THEN {e} ELSE s

\* set.insert($elem)
InsertElem(s, e) == s \cup {e}

\* insert reserves room for one more entry before it looks the key up: with
\* no room left the table is reallocated
NeedsRealloc(stored, cap) == stored >= cap
Grown(cap) == 2 * cap + 1

InitSortIdle ==
    /\ build = "insertion"
    /\ etype = "i32"
    /\ kind = "vec"
    /\ collection = <<>>
    /\ op = "none"
    /\ cmpUsed = "none"
    /\ before = <<>>
    /\ outcome = "none"
    /\ returned = <<>>

InitLiteral ==
    /\ InitSortIdle
    /\ macro \in {"count_args", "hashmap", "hashset"}
    /\ args \in IF macro = "hashmap"
                THEN SeqsUpTo(Keys \X LitVals, MaxArgs)
                ELSE SeqsUpTo(Keys, MaxArgs)
    /\ pc = "start"
    /\ size = 0
    /\ capacity = 0
    /\ map = <<>>
    /\ set = {}
    /\ idx = 0
    /\ evals = <<>>
    /\ reallocs = 0
    /\ count = [value |-> 0, depth |-> 0]

\* count_args!(e1, ..., en)
CountArgsCall ==
    /\ macro = "count_args"
    /\ pc = "start"
    /\ count' = [value |-> CountArgs(ElemExprs(args)),
                 depth |-> CountArgsDepth(ElemExprs(args))]
    /\ evals' = evals \o CountArgsEvaluated(ElemExprs(args))
    /\ pc' = "returned"
    /\ UNCHANGED <<macro, args, size, capacity, map, set, idx, reallocs>>
    /\ UNCHANGED sortVars

\* hashmap!(): HashMap::new()
HashmapNew ==
    /\ macro = "hashmap"
    /\ pc = "start"
    /\ args = <<>>
    /\ map' = <<>>
    /\ capacity' = 0
    /\ pc' = "returned"
    /\ UNCHANGED <<macro, args, size, set, idx, evals, reallocs, count>>
    /\ UNCHANGED sortVars

\* let size = count_args!( $( $key ),* );
HashmapCount ==
    /\ macro = "hashmap"
    /\ pc = "start"
    /\ args # <<>>
    /\ size' = CountArgs(KeyExprs(args))
    /\ evals' = evals \o CountArgsEvaluated(KeyExprs(args))
    /\ pc' = "counted"
    /\ UNCHANGED <<macro, args, capacity, map, set, idx, reallocs, count>>
    /\ UNCHANGED sortVars

\* let mut map = HashMap::with_capacity(size);
HashmapWithCapacity ==
    /\ macro = "hashmap"
    /\ pc = "counted"
    /\ capacity' \in WithCapacity(size)
    /\ map' = <<>>
    /\ idx' = 1
    /\ pc' = "insert"
    /\ UNCHANGED <<macro, args, size, set, evals, reallocs, count>>
    /\ UNCHANGED sortVars

\* map.insert($key, $value); for the next pair: the key expression is
\* evaluated, then the value expression, then the pair is inserted
HashmapInsert ==
    /\ macro = "hashmap"
    /\ pc = "insert"
    /\ idx <= Len(args)
    /\ evals' = evals \o << <<"key", idx>>, <<"value", idx>> >>
    /\ IF NeedsRealloc(Cardinality(DOMAIN map), capacity)
       THEN capacity' = Grown(capacity) /\ reallocs' = reallocs + 1
       ELSE UNCHANGED <<capacity, reallocs>>
    /\ map' = InsertPair(map, args[idx])
    /\ idx' = idx + 1
    /\ UNCHANGED <<macro, args, pc, size, set, count>>
    /\ UNCHANGED sortVars

\* the block's value: map
HashmapReturn ==
    /\ macro = "hashmap"
    /\ pc = "insert"
    /\ idx > Len(args)
    /\ pc' = "returned"
    /\ UNCHANGED <<macro, args, size, capacity, map, set, idx, evals, reallocs, count>>
    /\ UNCHANGED sortVars

\* hashset!(): HashSet::new()
HashsetNew ==
    /\ macro = "hashset"
    /\ pc = "start"
    /\ args = <<>>
    /\ set' = {}
    /\ capacity' = 0
    /\ pc' = "returned"
    /\ UNCHANGED <<macro, args, size, map, idx, evals, reallocs, count>>
    /\ UNCHANGED sortVars

\* let size = count_args!( $($elem),* );
HashsetCount ==
    /\ macro = "hashset"
    /\ pc = "start"
    /\ args # <<>>
    /\ size' = CountArgs(ElemExprs(args))
    /\ evals' = evals \o CountArgsEvaluated(ElemExprs(args))
    /\ pc' = "counted"
    /\ UNCHANGED <<macro, args, capacity, map, set, idx, reallocs, count>>
    /\ UNCHANGED sortVars

\* let mut set = HashSet::with_capacity(size);
HashsetWithCapacity ==
    /\ macro = "hashset"
    /\ pc = "counted"
    /\ capacity' \in WithCapacity(size)
    /\ set' = {}
    /\ idx' = 1
    /\ pc' = "insert"
    /\ UNCHANGED <<macro, args, size, map, evals, reallocs, count>>
    /\ UNCHANGED sortVars

\* set.insert($elem); for the next element
HashsetInsert ==
    /\ macro = "hashset"
    /\ pc = "insert"
    /\ idx <= Len(args)
    /\ evals' = evals \o << <<"elem", idx>> >>
    /\ IF NeedsRealloc(Cardinality(set), capacity)
       THEN capacity' = Grown(capacity) /\ reallocs' = reallocs + 1
       ELSE UNCHANGED <<capacity, reallocs>>
    /\ set' = InsertElem(set, args[idx])
    /\ idx' = idx + 1
    /\ UNCHANGED <<macro, args, pc, size, map, count>>
    /\ UNCHANGED sortVars

\* the block's value: set
HashsetReturn ==
    /\ macro = "hashset"
    /\ pc = "insert"
    /\ idx > Len(args)
    /\ pc' = "returned"
    /\ UNCHANGED <<macro, args, size, capacity, map, set, idx, evals, reallocs, count>>
    /\ UNCHANGED sortVars

NextLiteral ==
    \/ CountArgsCall
    \/ HashmapNew
    \/ HashmapCount
    \/ HashmapWithCapacity
    \/ HashmapInsert
    \/ HashmapReturn
    \/ HashsetNew
    \/ HashsetCount
    \/ HashsetWithCapacity
    \/ HashsetInsert
    \/ HashsetReturn

LiteralSpec == InitLiteral /\ [][NextLiteral]_vars

\* ------------------------------------------------- properties: sort family
Range(v) == {v[i] : i \in 1..Len(v)}

Occurrences(v, x) == Cardinality({i \in 1..Len(v) : v[i] = x})

\* same length and same multiset of elements
IsPermutation(a, b) ==
    /\ Len(a) = Len(b)
    /\ \A x \in Range(a) \cup Range(b) : Occurrences(a, x) = Occurrences(b, x)

NonDecreasing(v) == \A i \in 1..(Len(v) - 1) : v[i] <= v[i + 1]

NoAdjacentGreater(v, cmp) ==
    \A i \in 1..(Len(v) - 1) : Compare(cmp, v[i], v[i + 1]) # "Greater"

\* no pair of positions, adjacent or not, that the comparator rates out of order
NoPairGreater(v, cmp) ==
    \A i, j \in 1..Len(v) : i < j => Compare(cmp, v[i], v[j]) # "Greater"

\* the comparator never fails on the elements of v
TotalOn(v, cmp) == cmp = "partial_unwrap" => NaN \notin Range(v)

\* C1: sorted!(S) under the natural ordering returns a non-decreasing sequence
\* holding the same multiset of elements as S, and S is afterwards what it was
\* before the call, position by position (S a vector, an array or a set).
C1_SortedLeavesSource ==
    (op = "sorted" /\ cmpUsed = "natural") =>
        /\ outcome = "returned"
        /\ NonDecreasing(returned)
        /\ IsPermutation(returned, before)
        /\ collection = before

C1_Witness ==
    /\ op = "sorted"
    /\ cmpUsed = "natural"
    /\ kind = "set"
    /\ Len(before) >= 3
    /\ ~NonDecreasing(before)
    /\ returned # before
    /\ collection = before

\* C2: after sort!(S) the sequence is non-decreasing; after sort!(S, cmp) with
\* a total-order comparator no adjacent pair is rated Greater; in both modes
\* the sequence is a permutation of what it was before the call.
C2_SortOrdersInPlace ==
    (op = "sort" /\ TotalOn(before, cmpUsed)) =>
        /\ outcome = "returned"
        /\ IsPermutation(collection, before)
        /\ cmpUsed = "natural" => NonDecreasing(collection)
        /\ cmpUsed # "natural" => NoAdjacentGreater(collection, cmpUsed)

C2_Witness ==
    /\ op = "sort"
    /\ cmpUsed = "reverse"
    /\ Len(before) >= 3
    /\ collection # before
    /\ \E i, j \in 1..Len(before) : i # j /\ before[i] = before[j]

\* C7 as stated: every sorted_f64! input holding a NaN, of whatever length,
\* ends in the panic of the comparator's unwrap, and every other input is
\* returned in non-decreasing order.
C7_Original ==
    op = "sorted_f64" =>
        /\ NaN \in Range(before) => outcome = "panicked"
        /\ NaN \notin Range(before) =>
               (outcome = "returned" /\ NonDecreasing(returned))

\* C7 amended: a sorted_f64! input of two or more elements holding a NaN ends
\* in the panic and returns nothing; the one-element input <<NaN>> is returned
\* as it is, no comparison being made; an input without NaN is returned in
\* non-decreasing order, a permutation of the source.
C7_NaNPanicsFromTwoElements ==
    op = "sorted_f64" =>
        /\ (NaN \in Range(before) /\ Len(before) >= 2) =>
               (outcome = "panicked" /\ returned = <<>>)
        /\ (NaN \in Range(before) /\ Len(before) < 2) =>
               (outcome = "returned" /\ returned = before)
        /\ NaN \notin Range(before) =>
               /\ outcome = "returned"
               /\ NonDecreasing(returned)
               /\ IsPermutation(returned, before)
        /\ collection = before

C7_Witness ==
    /\ op = "sorted_f64"
    /\ Len(before) >= 3
    /\ before[Len(before)] = NaN
    /\ Occurrences(before, NaN) = 1
    /\ ~NonDecreasing(SubSeq(before, 1, Len(before) - 1))
    /\ outcome = "panicked"

\* the sequence the last sort! call was given was already in the order of the
\* comparator it was called with
SortedInput == TotalOn(before, cmpUsed) /\ NoPairGreater(before, cmpUsed)

\* C8 as stated: sort! applied to an already sorted sequence leaves every
\* position unchanged, in both modes, also when the comparator rates
\* distinguishable elements Equal.
C8_Original ==
    (op = "sort" /\ outcome = "returned" /\ SortedInput) => collection = before

\* C8 amended: sort! applied to an already sorted sequence leaves at every
\* position an element the comparator rates Equal to the one that was there,
\* so the sequence stays sorted and holds the same elements; every position is
\* unchanged when the ordering rates only identical elements Equal (the natural
\* ordering, its reverse); elements the comparator rates Equal may change places.
C8_IdempotentUpToEqual ==
    (op = "sort" /\ outcome = "returned" /\ SortedInput) =>
        /\ IsPermutation(collection, before)
        /\ \A i \in 1..Len(before) :
               Compare(cmpUsed, collection[i], before[i]) = "Equal"
        /\ cmpUsed \in {"natural", "reverse", "partial_unwrap"} =>
               collection = before

C8_Witness ==
    /\ op = "sort"
    /\ outcome = "returned"
    /\ cmpUsed = "by_key"
    /\ SortedInput
    /\ Len(before) >= 3
    /\ collection # before

\* C9 as stated: when the comparator fails part-way, sorted! returns no
\* sequence and leaves its source unchanged, and sort! leaves its input either
\* fully sorted or exactly as it was before the call.
C9_Original ==
    outcome = "panicked" =>
        /\ returned = <<>>
        /\ op \in {"sorted", "sorted_f64"} => collection = before
        /\ op = "sort" =>
               \/ collection = before
               \/ NoPairGreater(collection, cmpUsed)

\* C9 amended: when the comparator fails part-way the call returns no value;
\* sorted! and sorted_f64! leave their source unchanged; sort! leaves its input
\* a permutation of what it was before the call, which may be partially
\* reordered.
C9_PanicKeepsElements ==
    outcome = "panicked" =>
        /\ returned = <<>>
        /\ op \in {"sorted", "sorted_f64"} => collection = before
        /\ op = "sort" => IsPermutation(collection, before)

C9_Witness ==
    /\ outcome = "panicked"
    /\ op = "sort"
    /\ collection # before
    /\ Len(before) >= 3

\* ---------------------------------------------- properties: literal macros
\* the map built by starting from the empty map and inserting the first n
\* pairs of a one at a time
RECURSIVE InsertedInOrder(_, _)
InsertedInOrder(a, n) ==
    IF n = 0 THEN <<>>
    ELSE HashMapInsert(InsertedInOrder(a, n - 1), a[n][1], a[n][2])

\* C3: hashmap!(k1 => v1, ..., kn => vn), n >= 0, repeated keys included,
\* returns the map obtained from the empty map by inserting the pairs in the
\* order given: its keys are the distinct ki and each key maps to the value of
\* the last pair with that key.
C3_HashmapIsOrderedInsertion ==
    (macro = "hashmap" /\ pc = "returned") =>
        /\ map = InsertedInOrder(args, Len(args))
        /\ DOMAIN map = {args[i][1] : i \in 1..Len(args)}
        /\ \A i \in 1..Len(args) :
               (\A j \in (i + 1)..Len(args) : args[j][1] # args[i][1]) =>
                   map[args[i][1]] = args[i][2]

C3_Witness ==
    /\ macro = "hashmap"
    /\ pc = "returned"
    /\ Len(args) = 3
    /\ args[1][1] = args[3][1]
    /\ args[1][2] # args[3][2]
    /\ args[2][1] # args[1][1]
    /\ map[args[1][1]] = args[3][2]

\* C4: hashset!(e1, ..., en), n >= 0, duplicates included, returns the set of
\* the distinct values among e1..en; its size never exceeds n.
C4_HashsetIsDistinctElements ==
    (macro = "hashset" /\ pc = "returned") =>
        /\ set = {args[i] : i \in 1..Len(args)}
        /\ Cardinality(set) <= Len(args)
        /\ Cardinality(set) = Len(args) <=>
               (\A i, j \in 1..Len(args) : i # j => args[i] # args[j])

C4_Witness ==
    /\ macro = "hashset"
    /\ pc = "returned"
    /\ Len(args) = 3
    /\ Cardinality(set) = 2

\* C5: count_args! of n arguments returns n: 0 for none, 1 for one, and for a
\* longer list 1 plus the count of the list without its first argument; the
\* recursion ends, one invocation for each argument.
C5_CountArgsIsLength ==
    (macro = "count_args" /\ pc = "returned") =>
        /\ count.value = Len(args)
        /\ Len(args) >= 2 =>
               count.value = 1 + CountArgs(Tail(ElemExprs(args)))
        /\ count.depth = IF Len(args) = 0 THEN 1 ELSE Len(args)

C5_Witness ==
    /\ macro = "count_args"
    /\ pc = "returned"
    /\ Len(args) = 3
    /\ count.value = 3

\* the number of entries the container under construction holds
Stored == IF macro = "hashmap" THEN Cardinality(DOMAIN map) ELSE Cardinality(set)

\* C6: hashmap! and hashset! of n >= 1 entries ask for room for exactly the n
\* entries count_args! counted, before the first insertion; at every step of
\* the population the entries stored are at most the capacity reserved, and no
\* insertion reallocates.
C6_NoReallocation ==
    (macro \in {"hashmap", "hashset"} /\ Len(args) >= 1) =>
        /\ pc \in {"counted", "insert", "returned"} => size = Len(args)
        /\ pc = "counted" => (Stored = 0 /\ idx = 0)
        /\ pc \in {"insert", "returned"} =>
               /\ capacity >= size
               /\ Stored <= idx - 1
               /\ Stored <= capacity
               /\ reallocs = 0
        /\ (pc = "insert" /\ idx <= Len(args)) => Stored < capacity

C6_Witness ==
    /\ macro = "hashmap"
    /\ pc = "returned"
    /\ Len(args) = 3
    /\ Stored = 3
    /\ capacity = 3
    /\ reallocs = 0

\* the evaluations the population has made once k entries are inserted
MapEvals(k) ==
    [j \in 1..(2 * k) |->
        IF j % 2 = 1 THEN <<"key", (j + 1) \div 2>> ELSE <<"value", j \div 2>>]
SetEvals(k) == [j \in 1..k |-> <<"elem", j>>]

\* C10: the count_args! step of hashmap! and hashset! evaluates no argument
\* expression; the population evaluates every key, value and element
\* expression exactly once, entry by entry in the order written, the key before
\* the value.
C10_EachExpressionOnce ==
    /\ macro = "count_args" => evals = <<>>
    /\ pc \in {"start", "counted"} => evals = <<>>
    /\ (macro = "hashmap" /\ pc = "insert") => evals = MapEvals(idx - 1)
    /\ (macro = "hashmap" /\ pc = "returned") => evals = MapEvals(Len(args))
    /\ (macro = "hashset" /\ pc = "insert") => evals = SetEvals(idx - 1)
    /\ (macro = "hashset" /\ pc = "returned") => evals = SetEvals(Len(args))

C10_Witness ==
    /\ macro = "hashmap"
    /\ pc = "returned"
    /\ Len(args) = 3
    /\ evals = << <<"key", 1>>, <<"value", 1>>, <<"key", 2>>, <<"value", 2>>,
                  <<"key", 3>>, <<"value", 3>> >>

====
